---- MODULE Spec2Model ----
(***************************************************************************)
(* The guarded mailbox worker of worker.js (lines 1-228): the jobs table,  *)
(* the mailbox poll, the transactional claim, the delivery loop with its   *)
(* webhook POST and deferred mark-read, the run guard of mainLoop, and the *)
(* startup recovery of rows left in 'processing'.                          *)
(*                                                                         *)
(* The store is one SQLite file in WAL mode shared by every process that   *)
(* opens it.  Each prepared statement run outside a transaction is one     *)
(* atomic commit.  The claim runs in a deferred transaction: its first     *)
(* SELECT fixes a read snapshot, and its UPDATE fails with SQLITE_BUSY     *)
(* when another connection has committed a write since that snapshot.      *)
(*                                                                         *)
(* AUTOINCREMENT ids grow in insertion order (ignored inserts leave gaps); *)
(* the model numbers the rows by their rank in that order, so the id of a  *)
(* row is its index in the sequence jobs.                                  *)
(***************************************************************************)
EXTENDS Integers, Sequences, FiniteSets, TLC

\* ------------------------------------------------------------------ bounds
NumMsgs == 2         \* messages that can arrive in the polled folder
MaxCrashes == 1      \* process stops explored per run
MaxTime == 1         \* last value of the clock
NumRaceMsgs == 1     \* messages that arrive while two workers share the store
MaxSkips == 1        \* timer firings counted while a tick is running
NumSessions == 3     \* SMTP transactions received by the listener
NumRequests == 2     \* requests received by the webhook handler

\* The configurations of CLAIM_LIMIT explored (the environment sets it).
ClaimLimits == {1, 2}

Messages == 1..NumMsgs
Workers == {1, 2}
Sessions == 1..NumSessions
Requests == 1..NumRequests

\* The two programs that open DATA_DIR/db.sqlite.
Programs == {"worker", "smtp"}

VARIABLES
  jobs,          \* the jobs table: a sequence of rows, the id of a row is its index
  mail,          \* the polled folder: message -> "absent" | "unread" | "read"
  now,           \* the clock behind datetime('now'), read in POLL_INTERVAL units
  CLAIM_LIMIT,   \* the configured batch size
  pc,            \* worker -> where the process is suspended
  mainRunning,   \* worker -> the run guard of mainLoop
  messages,      \* worker -> the messages fetched by the running poll
  mi,            \* worker -> index of the next fetched message to insert
  snapshot,      \* worker -> ids selected by the claim transaction's SELECT
  stale,         \* worker -> another connection committed since the SELECT
  batch,         \* worker -> the claimed job ids of the running tick
  bi,            \* worker -> index in batch of the job under delivery
  resp,          \* worker -> the webhook response held by the running attempt
  effects,       \* message -> webhook answers with shouldMarkAsRead = true so far
  crashes,       \* process stops so far
  skips,         \* worker -> timer firings that returned at the run guard so far
  smtpJobs,      \* the jobs table as the SMTP listener creates it
  smtpPc,        \* session -> where the listener's onData is for its message
  smtpReply,     \* session -> what onData passed to its callback
  whPc,          \* request -> where the webhook handler is suspended
  whPath,        \* request -> how far the handler got: its priceInfo and replyResult
  whResp,        \* request -> the response the handler has sent
  whSent,        \* request -> replies handed to the mail provider for it
  dbSchema,      \* the columns of table jobs in the shared DATA_DIR/db.sqlite
  procUp,        \* program -> "down" | "up" | "failed" on that shared file
  operations,    \* the array stored in DATA_DIR/operations.json
  opLast,        \* the last /api/operations request and the status it was answered with
  convPc,        \* where convertWithOpenAI is: "idle" | "awaiting" | "returned" | "thrown"
  convIn,        \* the email text it was called with and the operations file it will find
  extracted,     \* the extractor JSON parsed from the model's answer
  result         \* what convertWithOpenAI returned

\* The state of the SMTP listener, and everything outside the polling worker's
\* own tick.
smtpVars == <<smtpJobs, smtpPc, smtpReply>>

\* The state of the webhook handler.
whVars == <<whPc, whPath, whResp, whSent>>
\* The shared database file as the two programs find it at startup.
sharedVars == <<dbSchema, procUp>>
\* The state of the admin server's operations list.
adminVars == <<operations, opLast>>
\* The state of one conversion.
convVars == <<convPc, convIn, extracted, result>>
aux == <<skips, smtpJobs, smtpPc, smtpReply, whPc, whPath, whResp, whSent,
         dbSchema, procUp, operations, opLast, convPc, convIn, extracted, result>>

\* The state of the polling worker, its store and its mailbox.
workerVars == <<jobs, mail, now, CLAIM_LIMIT, pc, mainRunning, messages, mi, snapshot,
                stale, batch, bi, resp, effects, crashes>>

vars == <<jobs, mail, now, CLAIM_LIMIT, pc, mainRunning, messages, mi, snapshot,
          stale, batch, bi, resp, effects, crashes, skips, smtpJobs, smtpPc,
          smtpReply, whPc, whPath, whResp, whSent, dbSchema, procUp, operations,
          opLast, convPc, convIn, extracted, result>>

\* ------------------------------------------------------------ the job store

\* JSON.stringify(convertGraphMessage(msg)): the stored payload of a message.
Payload(m) == <<"json", m>>

\* The row an insert writes: the columns of the worker's CREATE TABLE (the id is
\* the row's index).
NewRow(m, t) == [msg_id |-> m, status |-> "pending", payload |-> Payload(m), created_at |-> t]

HasMsg(js, m) == \E i \in DOMAIN js : js[i].msg_id = m

\* A plain insert into a table without the UNIQUE constraint.
InsertJob_NoIgnore(js, m, t) == Append(js, NewRow(m, t))

\* INSERT OR REPLACE: a second insert for a msg_id rewrites the stored row.
InsertJob_Replace(js, m, t) ==
  IF HasMsg(js, m)
  THEN [i \in DOMAIN js |-> IF js[i].msg_id = m THEN NewRow(m, t) ELSE js[i]]
  ELSE Append(js, NewRow(m, t))

\* INSERT OR IGNORE with msg_id UNIQUE: a second row for a msg_id is ignored.
InsertJob(js, m, t) == IF HasMsg(js, m) THEN js ELSE Append(js, NewRow(m, t))

MarkJobDone(js, id) ==
  [i \in DOMAIN js |-> IF i = id THEN [js[i] EXCEPT !.status = "done"] ELSE js[i]]

\* The failed job is handed straight back to the pool.
MarkJobError_Pending(js, id) ==
  [i \in DOMAIN js |-> IF i = id THEN [js[i] EXCEPT !.status = "pending"] ELSE js[i]]

\* A failure branch that only logs and leaves the row as the claim set it.
MarkJobError_Forgotten(js, id) == js

MarkJobError(js, id) ==
  [i \in DOMAIN js |-> IF i = id THEN [js[i] EXCEPT !.status = "error"] ELSE js[i]]

\* A reset whose WHERE clause also matches rows in 'error'.
ResetProcessingToPending_AlsoError(js) ==
  [i \in DOMAIN js |->
     IF js[i].status \in {"processing", "error"}
     THEN [js[i] EXCEPT !.status = "pending"] ELSE js[i]]

\* A reset without its WHERE clause: every row goes back to 'pending'.
ResetProcessingToPending_All(js) ==
  [i \in DOMAIN js |-> [js[i] EXCEPT !.status = "pending"]]

ResetProcessingToPending(js) ==
  [i \in DOMAIN js |->
     IF js[i].status = "processing" THEN [js[i] EXCEPT !.status = "pending"] ELSE js[i]]

PendingIds(js) == {i \in DOMAIN js : js[i].status = "pending"}

\* The same SELECT with ORDER BY id DESC: the newest pending rows come first.
SelectPending_Newest(js, lim) ==
  {i \in PendingIds(js) : Cardinality({k \in PendingIds(js) : k > i}) < lim}

\* SELECT id FROM jobs WHERE status='pending' ORDER BY id LIMIT lim
SelectPending(js, lim) ==
  {i \in PendingIds(js) : Cardinality({k \in PendingIds(js) : k < i}) < lim}

\* The claimed rows read back with ORDER BY id DESC.
RECURSIVE SortedIds_Desc(_)
SortedIds_Desc(S) ==
  IF S = {} THEN <<>>
  ELSE LET hi == CHOOSE x \in S : \A y \in S : x >= y
       IN <<hi>> \o SortedIds_Desc(S \ {hi})

RECURSIVE SortedIds(_)
SortedIds(S) ==
  IF S = {} THEN <<>>
  ELSE LET lo == CHOOSE x \in S : \A y \in S : x <= y
       IN <<lo>> \o SortedIds(S \ {lo})

\* The claim's UPDATE without its id list: every pending row is taken.
SetProcessing_AllPending(js, ids) ==
  [i \in DOMAIN js |->
     IF js[i].status = "pending" THEN [js[i] EXCEPT !.status = "processing"] ELSE js[i]]

\* The claim's UPDATE also stamping the rows it takes.
SetProcessing_Restamp(js, ids) ==
  [i \in DOMAIN js |->
     IF i \in ids
     THEN [js[i] EXCEPT !.status = "processing", !.created_at = @ + 1]
     ELSE js[i]]

\* UPDATE jobs SET status='processing' WHERE id IN (ids)
SetProcessing(js, ids) ==
  [i \in DOMAIN js |-> IF i \in ids THEN [js[i] EXCEPT !.status = "processing"] ELSE js[i]]

\* The row of a message, for reading a job by its source message.
StatusOf(m) ==
  IF HasMsg(jobs, m)
  THEN jobs[CHOOSE i \in DOMAIN jobs : jobs[i].msg_id = m].status
  ELSE "none"

\* A committed write by w invalidates the snapshot of every other open transaction.
StaleAfterWrite(w) ==
  [v \in Workers |-> IF v # w /\ pc[v] = "claim_tx" THEN TRUE ELSE stale[v]]

\* ------------------------------------------------------------- downstream

\* What the webhook can answer: an HTTP status and a body.
Bodies == {"notjson", "noflag", "flagfalse", "flagtrue"}
Responses == [status : {200, 500}, body : Bodies]
NoResp == [status |-> 0, body |-> "none"]

RespOk(r) == r.status >= 200 /\ r.status <= 299
JsonParses(r) == r.body # "notjson"
\* The flag tested as "not false": a missing flag counts as set.
ShouldMarkAsRead_NotFalse(r) == r.body # "flagfalse"

\* webhookResult?.shouldMarkAsRead === true
ShouldMarkAsRead(r) == r.body = "flagtrue"

\* $top=10 of fetchUnreadEmails
Top == 10


\* ------------------------------------------------------------------- Init

\* --------------------------------------------- the admin operations list

\* Texts are sequences of characters, so that trim and parseInt are computed.
Digits == {"0", "1", "2", "3"}

DigitValue(c) == CASE c = "0" -> 0 [] c = "1" -> 1 [] c = "2" -> 2 [] c = "3" -> 3

\* String.prototype.trim
RECURSIVE TrimLeft(_)
TrimLeft(s) == IF s # <<>> /\ Head(s) = " " THEN TrimLeft(Tail(s)) ELSE s

RECURSIVE TrimRight(_)
TrimRight(s) ==
  IF s # <<>> /\ s[Len(s)] = " " THEN TrimRight(SubSeq(s, 1, Len(s) - 1)) ELSE s

Trim(s) == TrimRight(TrimLeft(s))

\* The decimal value of the longest prefix of digits.
RECURSIVE ParseDigits(_, _)
ParseDigits(s, acc) ==
  IF s = <<>> \/ Head(s) \notin Digits THEN acc
  ELSE ParseDigits(Tail(s), acc * 10 + DigitValue(Head(s)))

\* parseInt(text): leading blanks and a sign are skipped, the longest prefix
\* of digits is read and whatever follows it is ignored; NaN without a digit.
ParseInt(text) ==
  LET s == TrimLeft(text)
      neg == s # <<>> /\ Head(s) = "-"
      body == IF neg THEN Tail(s) ELSE s
  IN IF body = <<>> \/ Head(body) \notin Digits
     THEN [nan |-> TRUE, val |-> 0]
     ELSE [nan |-> FALSE,
           val |-> IF neg THEN 0 - ParseDigits(body, 0) ELSE ParseDigits(body, 0)]

\* The operation names a request can carry (operationName, '' when missing)
\* and the :index segments a request path can carry.
NameInputs == {<<>>, <<" ">>, <<"A">>, <<" ", "A", " ">>, <<"B">>, <<"C">>}
IndexInputs == {<<"0">>, <<"1">>, <<"3">>, <<"-", "1">>, <<"a">>, <<"1", "a">>}

\* An entry is stored as a plain string, or as an object with OperationName
\* when a group or a rule came with it.
NewEntry(name, meta) == [kind |-> IF meta THEN "object" ELSE "string", name |-> name]

\* The list the server writes when the file does not exist: plain strings.
DefaultOperations == <<NewEntry(<<"A">>, FALSE), NewEntry(<<"B">>, FALSE)>>

NoRequest == [method |-> "none", index |-> <<>>, name |-> <<>>, meta |-> FALSE, status |-> 0]

\* operations.some(...): a string entry is compared as it is, the
\* OperationName of an object entry is trimmed first; entry skip is left out.
NameTaken(ops, name, skip) ==
  \E i \in DOMAIN ops :
    /\ i # skip
    /\ IF ops[i].kind = "string" THEN ops[i].name = name ELSE Trim(ops[i].name) = name

\* POST /api/operations
PostOperation(raw, meta) ==
  LET trimmedName == Trim(raw)
      status == IF trimmedName = <<>> THEN 400
                ELSE IF NameTaken(operations, trimmedName, 0) THEN 400
                ELSE 200
  IN /\ operations' = IF status = 200
                      THEN Append(operations, NewEntry(trimmedName, meta))
                      ELSE operations
     /\ opLast' = [method |-> "POST", index |-> <<>>, name |-> raw, meta |-> meta,
                   status |-> status]
     /\ UNCHANGED workerVars
     /\ UNCHANGED <<skips, smtpJobs, smtpPc, smtpReply>>
     /\ UNCHANGED whVars
     /\ UNCHANGED sharedVars
     /\ UNCHANGED convVars

\* PUT /api/operations/:index; the array index i is position i + 1 here.
PutOperation(idx, raw, meta) ==
  LET index == ParseInt(idx)
      trimmedOperation == Trim(raw)
      status == IF index.nan \/ index.val < 0 THEN 400
                ELSE IF trimmedOperation = <<>> THEN 400
                ELSE IF index.val >= Len(operations) THEN 404
                ELSE IF NameTaken(operations, trimmedOperation, index.val + 1) THEN 400
                ELSE 200
  IN /\ operations' = IF status = 200
                      THEN [operations EXCEPT ![index.val + 1] = NewEntry(trimmedOperation, meta)]
                      ELSE operations
     /\ opLast' = [method |-> "PUT", index |-> idx, name |-> raw, meta |-> meta,
                   status |-> status]
     /\ UNCHANGED workerVars
     /\ UNCHANGED <<skips, smtpJobs, smtpPc, smtpReply>>
     /\ UNCHANGED whVars
     /\ UNCHANGED sharedVars
     /\ UNCHANGED convVars

\* DELETE /api/operations/:index
DeleteOperation(idx) ==
  LET index == ParseInt(idx)
      status == IF index.nan \/ index.val < 0 THEN 400
                ELSE IF index.val >= Len(operations) THEN 404
                ELSE 200
  IN /\ operations' = IF status = 200
                      THEN [i \in 1..(Len(operations) - 1) |->
                              IF i <= index.val THEN operations[i] ELSE operations[i + 1]]
                      ELSE operations
     /\ opLast' = [method |-> "DELETE", index |-> idx, name |-> <<>>, meta |-> FALSE,
                   status |-> status]
     /\ UNCHANGED workerVars
     /\ UNCHANGED <<skips, smtpJobs, smtpPc, smtpReply>>
     /\ UNCHANGED whVars
     /\ UNCHANGED sharedVars
     /\ UNCHANGED convVars

\* ------------------------------------------------------- the converter

\* The texts an email can carry, as far as a Rule of an operation sees them.
Texts == {"plain", "satin"}

\* An entry of operations.json: a name and the Rule it is bound to ("" for a
\* plain string or an object without Rule).
OpEntry(name, rule) == [name |-> name, rule |-> rule]

\* The operations.json loadOperations can find: none, an empty array, or
\* arrays of plain and rule-bound entries.
OpsFiles ==
  {[exists |-> FALSE, list |-> <<>>],
   [exists |-> TRUE, list |-> <<>>],
   [exists |-> TRUE, list |-> <<OpEntry("Preflight", "")>>],
   [exists |-> TRUE, list |-> <<OpEntry("Preflight", ""), OpEntry("Satin Note", "satin")>>],
   [exists |-> TRUE, list |-> <<OpEntry("Satin Note", "satin")>>]}

\* The kinds field of an extractor output: missing, an empty array, one kind
\* without a count, two kinds, or one entry with an empty name.
KindsInputs ==
  {[present |-> FALSE, list |-> <<>>],
   [present |-> TRUE, list |-> <<>>],
   [present |-> TRUE, list |-> <<[kind |-> "A", count |-> 0]>>],
   [present |-> TRUE, list |-> <<[kind |-> "A", count |-> 2], [kind |-> "B", count |-> 3]>>],
   [present |-> TRUE, list |-> <<[kind |-> "", count |-> 1]>>]}

Quantities == {0, 5}

\* What the model can answer: text without JSON, or an extractor JSON.
ModelOutputs ==
  [valid : {FALSE}, kinds : {[present |-> FALSE, list |-> <<>>]}, quantity : {0}]
    \cup [valid : {TRUE}, kinds : KindsInputs, quantity : Quantities]

NoCall == [text |-> "plain", opsFile |-> [exists |-> FALSE, list |-> <<>>]]
NoExtract == [valid |-> FALSE, kinds |-> [present |-> FALSE, list |-> <<>>], quantity |-> 0]
NoResult == [returned |-> FALSE]

\* The operations loadOperations returns when no file serves.
DefaultJobOperations == <<"Preflight", "* PROOF PDF", "*FILE SETUP ADS", "Auto to Press">>

RECURSIVE FilterOps(_, _)
FilterOps(list, text) ==
  IF list = <<>> THEN <<>>
  ELSE LET op == Head(list)
           keep == (op.rule = "" \/ op.rule = text) /\ op.name # ""
       IN (IF keep THEN <<op.name>> ELSE <<>>) \o FilterOps(Tail(list), text)

\* loadOperations(extracted.print, rawText): the entries of the first file
\* that exists and holds a non-empty array, without the rule-bound entries
\* whose Rule the text lacks; the four defaults when no file serves.
LoadOperations(file, text) ==
  IF file.exists /\ file.list # <<>> THEN FilterOps(file.list, text)
  ELSE DefaultJobOperations

\* extractKindsArrayFromExtracted: the kind names, empty ones dropped.
RECURSIVE KindNames(_)
KindNames(list) ==
  IF list = <<>> THEN <<>>
  ELSE (IF Head(list).kind # "" THEN <<Head(list).kind>> ELSE <<>>) \o KindNames(Tail(list))

\* buildFinalJsonFromExtracted, as far as the fixed fields go.
BuildFinalJsonFromExtracted(ex, in) ==
  LET kindsArray == KindNames(ex.kinds.list)
  IN [CustomerCode |-> "C00014",
      Deliveries |-> <<>>,
      Sections |-> <<[SectionType |-> "Single-Section"]>>,
      JobOperations |-> LoadOperations(in.opsFile, in.text),
      Quantity |-> ex.quantity,
      Kinds |-> IF Len(kindsArray) >= 1 THEN 0 ELSE 1]

\* convertWithOpenAI is called and awaits the model.
ConvCall(text, file) ==
  /\ convPc \in {"idle", "returned", "thrown"}
  /\ convPc' = "awaiting"
  /\ convIn' = [text |-> text, opsFile |-> file]
  /\ extracted' = NoExtract
  /\ result' = NoResult
  /\ UNCHANGED workerVars
  /\ UNCHANGED <<skips, smtpJobs, smtpPc, smtpReply>>
  /\ UNCHANGED whVars
  /\ UNCHANGED sharedVars
  /\ UNCHANGED adminVars

\* The model answers: without JSON the call throws; otherwise the final JSON
\* is built and returned together with the extractor output.
ConvReturn(out) ==
  /\ convPc = "awaiting"
  /\ extracted' = out
  /\ IF out.valid
     THEN /\ convPc' = "returned"
          /\ result' = [returned |-> TRUE,
                        final |-> BuildFinalJsonFromExtracted(out, convIn),
                        extracted |-> out,
                        stockMappingUsed |-> FALSE]
     ELSE /\ convPc' = "thrown"
          /\ result' = NoResult
  /\ UNCHANGED convIn
  /\ UNCHANGED workerVars
  /\ UNCHANGED <<skips, smtpJobs, smtpPc, smtpReply>>
  /\ UNCHANGED whVars
  /\ UNCHANGED sharedVars
  /\ UNCHANGED adminVars

\* An empty store and an empty folder; no process holds anything.
InitStore ==
  /\ jobs = <<>>
  /\ mail = [m \in Messages |-> "absent"]
  /\ now = 0
  /\ CLAIM_LIMIT \in ClaimLimits
  /\ messages = [w \in Workers |-> <<>>]
  /\ mi = [w \in Workers |-> 0]
  /\ snapshot = [w \in Workers |-> {}]
  /\ stale = [w \in Workers |-> FALSE]
  /\ batch = [w \in Workers |-> <<>>]
  /\ bi = [w \in Workers |-> 0]
  /\ resp = [w \in Workers |-> NoResp]
  /\ effects = [m \in Messages |-> 0]
  /\ crashes = 0
  /\ skips = [w \in Workers |-> 0]
  /\ smtpJobs = <<>>
  /\ smtpPc = [s \in Sessions |-> "idle"]
  /\ smtpReply = [s \in Sessions |-> "none"]
  /\ whPc = [q \in Requests |-> "idle"]
  /\ whPath = [q \in Requests |-> "none"]
  /\ whResp = [q \in Requests |-> [status |-> 0, body |-> "none"]]
  /\ whSent = [q \in Requests |-> 0]
  /\ dbSchema = "none"
  /\ procUp = [p \in Programs |-> "down"]
  /\ operations = DefaultOperations
  /\ opLast = NoRequest
  /\ convPc = "idle"
  /\ convIn = NoCall
  /\ extracted = NoExtract
  /\ result = NoResult

\* No process runs yet.
Init ==
  /\ InitStore
  /\ pc = [w \in Workers |-> "stopped"]
  /\ mainRunning = [w \in Workers |-> FALSE]

\* ------------------------------------------------------------ environment

\* A new message is delivered to the polled folder, unread.
MailArrives(m) ==
  /\ mail[m] = "absent"
  /\ mail' = [mail EXCEPT ![m] = "unread"]
  /\ UNCHANGED <<jobs, now, CLAIM_LIMIT, pc, mainRunning, messages, mi, snapshot,
                 stale, batch, bi, resp, effects, crashes>>
  /\ UNCHANGED aux

\* ------------------------------------------------------- process lifetime

\* startup: recoverStuckProcessing(), setInterval, and the first mainLoop() call,
\* which sets the guard and suspends in pollMailbox at its first await.
Start(w) ==
  /\ pc[w] = "stopped"
  /\ jobs' = ResetProcessingToPending(jobs)
  /\ stale' = IF jobs' # jobs THEN StaleAfterWrite(w) ELSE stale
  /\ mainRunning' = [mainRunning EXCEPT ![w] = TRUE]
  /\ pc' = [pc EXCEPT ![w] = "poll"]
  /\ UNCHANGED <<mail, now, CLAIM_LIMIT, messages, mi, snapshot, batch, bi, resp,
                 effects, crashes>>
  /\ UNCHANGED aux

\* The process stops at any suspension point: its memory is lost, the store and
\* the mailbox are kept, an open claim transaction is rolled back.
Crash(w) ==
  /\ pc[w] # "stopped"
  /\ crashes < MaxCrashes
  /\ crashes' = crashes + 1
  /\ pc' = [pc EXCEPT ![w] = "stopped"]
  /\ mainRunning' = [mainRunning EXCEPT ![w] = FALSE]
  /\ messages' = [messages EXCEPT ![w] = <<>>]
  /\ mi' = [mi EXCEPT ![w] = 0]
  /\ snapshot' = [snapshot EXCEPT ![w] = {}]
  /\ stale' = [stale EXCEPT ![w] = FALSE]
  /\ batch' = [batch EXCEPT ![w] = <<>>]
  /\ bi' = [bi EXCEPT ![w] = 0]
  /\ resp' = [resp EXCEPT ![w] = NoResp]
  /\ UNCHANGED <<jobs, mail, now, CLAIM_LIMIT, effects>>
  /\ UNCHANGED aux

\* A mainLoop without the guard: every firing of the timer starts a tick.
GuardHeld_Never(w) == FALSE

\* if (mainRunning) return;
GuardHeld(w) == mainRunning[w]

\* The interval timer fires, one POLL_INTERVAL after the firing before, while no
\* tick is running: mainLoop sets the guard and suspends in pollMailbox.
TimerFire(w) ==
  /\ pc[w] # "stopped"
  /\ ~GuardHeld(w)
  /\ now' = IF now < MaxTime THEN now + 1 ELSE now
  /\ mainRunning' = [mainRunning EXCEPT ![w] = TRUE]
  /\ pc' = [pc EXCEPT ![w] = "poll"]
  /\ UNCHANGED <<jobs, mail, CLAIM_LIMIT, messages, mi, snapshot, stale, batch,
                 bi, resp, effects, crashes>>
  /\ UNCHANGED aux

\* The interval timer fires while a tick is running: mainLoop returns at the
\* guard.  setInterval keeps no record of the call.
TimerSkip(w) ==
  /\ pc[w] # "stopped"
  /\ GuardHeld(w)
  /\ skips[w] < MaxSkips
  /\ skips' = [skips EXCEPT ![w] = @ + 1]
  /\ now' = IF now < MaxTime THEN now + 1 ELSE now
  /\ UNCHANGED <<jobs, mail, CLAIM_LIMIT, pc, mainRunning, messages, mi, snapshot,
                 stale, batch, bi, resp, effects, crashes>>
  /\ UNCHANGED smtpVars
  /\ UNCHANGED whVars
  /\ UNCHANGED sharedVars
  /\ UNCHANGED adminVars
  /\ UNCHANGED convVars

\* A mainLoop without its finally block: the guard stays set when the tick ends.
EndTick_GuardKept(w) ==
  /\ pc' = [pc EXCEPT ![w] = "idle"]
  /\ mainRunning' = mainRunning
  /\ batch' = [batch EXCEPT ![w] = <<>>]
  /\ bi' = [bi EXCEPT ![w] = 0]

\* The finally block of mainLoop, with the locals of the tick gone.
EndTick(w) ==
  /\ pc' = [pc EXCEPT ![w] = "idle"]
  /\ mainRunning' = [mainRunning EXCEPT ![w] = FALSE]
  /\ batch' = [batch EXCEPT ![w] = <<>>]
  /\ bi' = [bi EXCEPT ![w] = 0]

\* ---------------------------------------------------------------- polling

Unread == {m \in DOMAIN mail : mail[m] = "unread"}

Min(a, b) == IF a <= b THEN a ELSE b

\* What one page of the unread filter can hold: up to Top unread messages, in
\* the order the provider lists them.
FetchResults ==
  LET n == Min(Top, Cardinality(Unread))
  IN {s \in [1..n -> Unread] : \A i, k \in 1..n : i # k => s[i] # s[k]}

\* getGraphAccessToken and fetchUnreadEmails answer.
PollFetch(w) ==
  /\ pc[w] = "poll"
  /\ \E s \in FetchResults :
       /\ messages' = [messages EXCEPT ![w] = s]
       /\ mi' = [mi EXCEPT ![w] = 1]
  /\ pc' = [pc EXCEPT ![w] = "insert"]
  /\ UNCHANGED <<jobs, mail, now, CLAIM_LIMIT, mainRunning, snapshot, stale, batch,
                 bi, resp, effects, crashes>>
  /\ UNCHANGED aux

\* A pollMailbox without its try/catch: the error leaves mainLoop's try block
\* before processJobs is called.
PcAfterPollError_EndsTick == "idle"

\* pollMailbox catches the error and returns normally: mainLoop calls
\* processJobs next.
PcAfterPollError == "claim"

\* The token request or the fetch throws: the poll is logged and given up.
PollThrow(w) ==
  /\ pc[w] = "poll"
  /\ pc' = [pc EXCEPT ![w] = PcAfterPollError]
  /\ UNCHANGED <<jobs, mail, now, CLAIM_LIMIT, mainRunning, messages, mi, snapshot,
                 stale, batch, bi, resp, effects, crashes>>
  /\ UNCHANGED aux

\* The poll marks each stored message read, as the unguarded worker does.
MailAfterInsert_MarkRead(m) == [mail EXCEPT ![m] = "read"]

\* The mailbox after the poll has stored a message: the poll leaves it unread.
MailAfterInsert(m) == mail

\* One pass of the for loop: insertJob.run for the next fetched message.
PollInsert(w) ==
  /\ pc[w] = "insert"
  /\ mi[w] <= Len(messages[w])
  /\ jobs' = InsertJob(jobs, messages[w][mi[w]], now)
  /\ mail' = MailAfterInsert(messages[w][mi[w]])
  /\ mi' = [mi EXCEPT ![w] = @ + 1]
  /\ stale' = StaleAfterWrite(w)
  /\ UNCHANGED <<now, CLAIM_LIMIT, pc, mainRunning, messages, snapshot, batch, bi,
                 resp, effects, crashes>>
  /\ UNCHANGED aux

\* The loop is over: pollMailbox returns and mainLoop goes on to processJobs.
PollDone(w) ==
  /\ pc[w] = "insert"
  /\ mi[w] > Len(messages[w])
  /\ messages' = [messages EXCEPT ![w] = <<>>]
  /\ mi' = [mi EXCEPT ![w] = 0]
  /\ pc' = [pc EXCEPT ![w] = "claim"]
  /\ UNCHANGED <<jobs, mail, now, CLAIM_LIMIT, mainRunning, snapshot, stale, batch,
                 bi, resp, effects, crashes>>
  /\ UNCHANGED aux

\* ------------------------------------------------------------------ claim

\* The transaction's SELECT: an empty result returns [] and processJobs returns.
ClaimSelect(w) ==
  /\ pc[w] = "claim"
  /\ LET ids == SelectPending(jobs, CLAIM_LIMIT)
     IN IF ids = {}
        THEN /\ EndTick(w)
             /\ UNCHANGED <<snapshot, stale>>
        ELSE /\ snapshot' = [snapshot EXCEPT ![w] = ids]
             /\ stale' = [stale EXCEPT ![w] = FALSE]
             /\ pc' = [pc EXCEPT ![w] = "claim_tx"]
             /\ UNCHANGED <<mainRunning, batch, bi>>
  /\ UNCHANGED <<jobs, mail, now, CLAIM_LIMIT, messages, mi, resp, effects, crashes>>
  /\ UNCHANGED aux

\* The SELECT and the UPDATE run as separate statements, outside a transaction.
SnapshotValid_NoTransaction(w) == TRUE

\* The transaction may write only if nothing was committed since its SELECT.
SnapshotValid(w) == ~stale[w]

\* The transaction's UPDATE, second SELECT and COMMIT; the first job is POSTed.
ClaimUpdate(w) ==
  /\ pc[w] = "claim_tx"
  /\ SnapshotValid(w)
  /\ jobs' = SetProcessing(jobs, snapshot[w])
  /\ batch' = [batch EXCEPT ![w] = SortedIds(snapshot[w])]
  /\ bi' = [bi EXCEPT ![w] = 1]
  /\ snapshot' = [snapshot EXCEPT ![w] = {}]
  /\ stale' = StaleAfterWrite(w)
  /\ pc' = [pc EXCEPT ![w] = "post"]
  /\ UNCHANGED <<mail, now, CLAIM_LIMIT, mainRunning, messages, mi, resp, effects,
                 crashes>>
  /\ UNCHANGED aux

\* The UPDATE fails with SQLITE_BUSY: the transaction is rolled back, the error
\* leaves processJobs and is logged by mainLoop, which clears the guard.
ClaimBusy(w) ==
  /\ pc[w] = "claim_tx"
  /\ ~SnapshotValid(w)
  /\ snapshot' = [snapshot EXCEPT ![w] = {}]
  /\ stale' = [stale EXCEPT ![w] = FALSE]
  /\ EndTick(w)
  /\ UNCHANGED <<jobs, mail, now, CLAIM_LIMIT, messages, mi, resp, effects, crashes>>
  /\ UNCHANGED aux


\* --------------------------------------------------------------- delivery

CurJob(w) == batch[w][bi[w]]

\* The for loop of processJobs goes on to the next claimed job, or the tick ends.
NextJob(w) ==
  /\ resp' = [resp EXCEPT ![w] = NoResp]
  /\ IF bi[w] < Len(batch[w])
     THEN /\ bi' = [bi EXCEPT ![w] = @ + 1]
          /\ pc' = [pc EXCEPT ![w] = "post"]
          /\ UNCHANGED <<mainRunning, batch>>
     ELSE EndTick(w)

\* The webhook handler answers with shouldMarkAsRead = true only after it has
\* sent the reply: each such answer is one more side effect for the message.
EffectsAfter(m, r) ==
  IF r.status = 200 /\ r.body = "flagtrue"
  THEN [effects EXCEPT ![m] = Min(@ + 1, MaxCrashes + 2)]
  ELSE effects

\* The webhook answers the POST of the current job.
PostReturn(w, r) ==
  /\ pc[w] = "post"
  /\ effects' = EffectsAfter(jobs[CurJob(w)].msg_id, r)
  /\ IF RespOk(r) /\ JsonParses(r) /\ ShouldMarkAsRead(r)
     THEN /\ resp' = [resp EXCEPT ![w] = r]
          /\ pc' = [pc EXCEPT ![w] = "markread"]
          /\ UNCHANGED <<jobs, stale, mainRunning, batch, bi>>
     ELSE /\ jobs' = MarkJobError(jobs, CurJob(w))
          /\ stale' = StaleAfterWrite(w)
          /\ NextJob(w)
  /\ UNCHANGED <<mail, now, CLAIM_LIMIT, messages, mi, snapshot, crashes>>
  /\ UNCHANGED aux

\* The POST throws (network failure): the outer catch marks the job error.
PostThrow(w) ==
  /\ pc[w] = "post"
  /\ jobs' = MarkJobError(jobs, CurJob(w))
  /\ stale' = StaleAfterWrite(w)
  /\ NextJob(w)
  /\ UNCHANGED <<mail, now, CLAIM_LIMIT, messages, mi, snapshot, effects, crashes>>
  /\ UNCHANGED aux

\* What the mail provider can answer to the PATCH isRead = true.
GraphStatuses == {200, 500}

\* markMessageAsRead only logs a non-2xx answer: it throws for no status.
MarkReadRejects(st) == FALSE

\* getGraphAccessToken and markMessageAsRead answer: a 2xx answer has marked
\* the message read at the provider.
MarkReadReturn(w, st) ==
  /\ pc[w] = "markread"
  /\ mail' = IF st >= 200 /\ st <= 299
             THEN [mail EXCEPT ![jobs[CurJob(w)].msg_id] = "read"]
             ELSE mail
  /\ jobs' = IF MarkReadRejects(st)
             THEN MarkJobError(jobs, CurJob(w))
             ELSE MarkJobDone(jobs, CurJob(w))
  /\ stale' = StaleAfterWrite(w)
  /\ NextJob(w)
  /\ UNCHANGED <<now, CLAIM_LIMIT, messages, mi, snapshot, effects, crashes>>
  /\ UNCHANGED aux

\* The token request or the PATCH throws; the PATCH may have been applied at the
\* provider before its answer was lost.
MarkReadThrow(w, applied) ==
  /\ pc[w] = "markread"
  /\ mail' = IF applied
             THEN [mail EXCEPT ![jobs[CurJob(w)].msg_id] = "read"]
             ELSE mail
  /\ jobs' = MarkJobError(jobs, CurJob(w))
  /\ stale' = StaleAfterWrite(w)
  /\ NextJob(w)
  /\ UNCHANGED <<now, CLAIM_LIMIT, messages, mi, snapshot, effects, crashes>>
  /\ UNCHANGED aux

\* --------------------------------------------------------- specifications

\* ------------------------------------------------------- storage failures

\* resetProcessingToPending.run throws (the file is locked by another process
\* past the busy timeout, the disk fails): recoverStuckProcessing logs the
\* error and returns, and startup goes on to the timer and the first tick.
StartResetFails(w) ==
  /\ pc[w] = "stopped"
  /\ mainRunning' = [mainRunning EXCEPT ![w] = TRUE]
  /\ pc' = [pc EXCEPT ![w] = "poll"]
  /\ UNCHANGED <<jobs, mail, now, CLAIM_LIMIT, messages, mi, snapshot, stale, batch,
                 bi, resp, effects, crashes>>
  /\ UNCHANGED aux

\* insertJob.run throws inside the for loop: the catch of pollMailbox logs it as
\* a poll error and returns; the loop is left with the failed message and the
\* messages after it not stored.
PollInsertFails(w) ==
  /\ pc[w] = "insert"
  /\ mi[w] <= Len(messages[w])
  /\ messages' = [messages EXCEPT ![w] = <<>>]
  /\ mi' = [mi EXCEPT ![w] = 0]
  /\ pc' = [pc EXCEPT ![w] = PcAfterPollError]
  /\ UNCHANGED <<jobs, mail, now, CLAIM_LIMIT, mainRunning, snapshot, stale, batch,
                 bi, resp, effects, crashes>>
  /\ UNCHANGED aux

\* markJobError.run or markJobDone.run throws: the outer catch of processJobs
\* runs markJobError again, which throws out of processJobs; mainLoop logs the
\* error and clears the guard.  The jobs of the batch not yet finalized stay
\* 'processing'.  A mark-read that came before the failed update is kept.
StatusUpdateFails(w, marked) ==
  /\ pc[w] \in {"post", "markread"}
  /\ marked => pc[w] = "markread"
  /\ mail' = IF marked
             THEN [mail EXCEPT ![jobs[CurJob(w)].msg_id] = "read"]
             ELSE mail
  /\ resp' = [resp EXCEPT ![w] = NoResp]
  /\ EndTick(w)
  /\ UNCHANGED <<jobs, now, CLAIM_LIMIT, messages, mi, snapshot, stale, effects,
                 crashes>>
  /\ UNCHANGED aux

\* An awaited network call (token request, unread fetch, webhook POST, PATCH)
\* whose peer never answers: fetch is called without a timeout or an abort
\* signal, so the promise never settles and the tick stays suspended there.
Hang(w) ==
  /\ pc[w] \in {"poll", "post", "markread"}
  /\ pc' = [pc EXCEPT ![w] = "hung"]
  /\ UNCHANGED <<jobs, mail, now, CLAIM_LIMIT, mainRunning, messages, mi, snapshot,
                 stale, batch, bi, resp, effects, crashes>>
  /\ UNCHANGED aux

\* ---------------------------------------------------------- SMTP listener

\* How the body of onData's end handler can go: simpleParser rejects, a
\* writeFileSync of an attachment throws, insertJob.run throws, or all succeed.
SmtpOutcomes == {"parseFail", "attachFail", "insertFail", "ok"}

\* JSON.stringify(payload) of the message of a session.
SmtpPayload(s) == <<"json", s>>

\* The row onData inserts: a fresh uuid, 'pending', no attempts, due at once.
SmtpNewRow(s, t) ==
  [id |-> <<"uuid", s>>, status |-> "pending", attempts |-> 0, next_run_at |-> t,
   created_at |-> t, payload |-> SmtpPayload(s)]

\* A handler that inserts the job before it saves the attachments.
SmtpJobsAfter_InsertFirst(js, s, outcome, t) ==
  IF outcome \in {"ok", "attachFail"} THEN Append(js, SmtpNewRow(s, t)) ELSE js

\* The table after the handler ran: the insert is the last statement of the try
\* block before the callback, so it runs only when nothing before it threw, and
\* a failed INSERT writes nothing.
SmtpJobsAfter(js, s, outcome, t) ==
  IF outcome = "ok" THEN Append(js, SmtpNewRow(s, t)) ELSE js

\* The DATA stream of a transaction ends: the handler awaits simpleParser.
SmtpData(s) ==
  /\ smtpPc[s] = "idle"
  /\ smtpPc' = [smtpPc EXCEPT ![s] = "parsing"]
  /\ UNCHANGED <<smtpJobs, smtpReply, skips>>
  /\ UNCHANGED workerVars
  /\ UNCHANGED whVars
  /\ UNCHANGED sharedVars
  /\ UNCHANGED adminVars
  /\ UNCHANGED convVars

\* The parser settles and the rest of the handler runs without suspending:
\* attachments, payload, insert, callback(null); or the catch and callback(err).
SmtpFinish(s, outcome) ==
  /\ smtpPc[s] = "parsing"
  /\ smtpJobs' = SmtpJobsAfter(smtpJobs, s, outcome, now)
  /\ smtpReply' = [smtpReply EXCEPT ![s] = IF outcome = "ok" THEN "ok" ELSE "err"]
  /\ smtpPc' = [smtpPc EXCEPT ![s] = "closed"]
  /\ UNCHANGED skips
  /\ UNCHANGED workerVars
  /\ UNCHANGED whVars
  /\ UNCHANGED sharedVars
  /\ UNCHANGED adminVars
  /\ UNCHANGED convVars

\* Date.now() moves on.
SmtpClock ==
  /\ now < MaxTime
  /\ now' = now + 1
  /\ UNCHANGED <<jobs, mail, CLAIM_LIMIT, pc, mainRunning, messages, mi, snapshot,
                 stale, batch, bi, resp, effects, crashes>>
  /\ UNCHANGED aux

\* --------------------------------------------------------- webhook handler

\* What the handler answers for the way its request went.  A failed conversion
\* or quote, or a throw while the reply is put together, ends in a 500 with
\* {ok: false}; a quote without a price and a failed send end in a 200 whose
\* flag was left false.
WhFailed == [status |-> 500, body |-> "noflag"]

\* A handler that sets the flag as soon as a price was found.
WhResponse_FlagOnPrice(path) ==
  IF path \in {"convertFail", "quoteFail", "replyBuildFail"} THEN WhFailed
  ELSE IF path \in {"sendOk", "sendThrow"} THEN [status |-> 200, body |-> "flagtrue"]
  ELSE [status |-> 200, body |-> "flagfalse"]

\* res.status(500).json({ok: false, ...}) or
\* res.json({ok: true, createResult, priceInfo, replyResult, shouldMarkAsRead})
WhResponse(path) ==
  IF path \in {"convertFail", "quoteFail", "replyBuildFail"} THEN WhFailed
  ELSE IF path = "sendOk" THEN [status |-> 200, body |-> "flagtrue"]
  ELSE [status |-> 200, body |-> "flagfalse"]

\* The handler sends its response and returns.
WhAnswer(q, path) ==
  /\ whPath' = [whPath EXCEPT ![q] = path]
  /\ whResp' = [whResp EXCEPT ![q] = WhResponse(path)]
  /\ whPc' = [whPc EXCEPT ![q] = "answered"]

\* A POST /webhook/email arrives: the handler awaits convertWithOpenAI.
WhReceive(q) ==
  /\ whPc[q] = "idle"
  /\ whPc' = [whPc EXCEPT ![q] = "convert"]
  /\ UNCHANGED <<whPath, whResp, whSent, skips>>
  /\ UNCHANGED smtpVars
  /\ UNCHANGED workerVars
  /\ UNCHANGED sharedVars
  /\ UNCHANGED adminVars
  /\ UNCHANGED convVars

\* The conversion settles: the handler awaits processQuote, or the outer catch
\* answers.
WhConvert(q, ok) ==
  /\ whPc[q] = "convert"
  /\ IF ok
     THEN /\ whPc' = [whPc EXCEPT ![q] = "quote"]
          /\ UNCHANGED <<whPath, whResp>>
     ELSE WhAnswer(q, "convertFail")
  /\ UNCHANGED <<whSent, skips>>
  /\ UNCHANGED smtpVars
  /\ UNCHANGED workerVars
  /\ UNCHANGED sharedVars
  /\ UNCHANGED adminVars
  /\ UNCHANGED convVars

\* How processQuote and the lines up to the send can go: the quote fails or
\* throws, it succeeds without a price, it succeeds with a price and the reply
\* is put together, or putting the reply together throws (part_009 reads
\* extracted.title of a conversion result that may lack it).
WhQuoteResults == {"fail", "noPrice", "price", "replyBuildFail"}

WhQuote(q, res) ==
  /\ whPc[q] = "quote"
  /\ IF res = "price"
     THEN /\ whPc' = [whPc EXCEPT ![q] = "send"]
          /\ whPath' = [whPath EXCEPT ![q] = "price"]
          /\ UNCHANGED whResp
     ELSE WhAnswer(q, IF res = "fail" THEN "quoteFail" ELSE res)
  /\ UNCHANGED <<whSent, skips>>
  /\ UNCHANGED smtpVars
  /\ UNCHANGED workerVars
  /\ UNCHANGED sharedVars
  /\ UNCHANGED adminVars
  /\ UNCHANGED convVars

\* How sendMailOffice365 can go: it returns {ok: true}; it throws before the
\* provider took the mail; it throws although the provider took it.
WhSendResults == {"ok", "throwUnsent", "throwSent"}

WhSend(q, res) ==
  /\ whPc[q] = "send"
  /\ whSent' = [whSent EXCEPT ![q] = IF res = "throwUnsent" THEN @ ELSE @ + 1]
  /\ WhAnswer(q, IF res = "ok" THEN "sendOk" ELSE "sendThrow")
  /\ UNCHANGED skips
  /\ UNCHANGED smtpVars
  /\ UNCHANGED workerVars
  /\ UNCHANGED sharedVars
  /\ UNCHANGED adminVars
  /\ UNCHANGED convVars

\* ------------------------------------------- the earlier worker (230-357)
\* The worker without claim and run guard.  Every firing of the timer calls
\* mainLoop, so calls overlap: t names one of the calls in progress; pc, messages,
\* mi, batch, bi and resp hold its locals, and mainRunning is not used.

\* setInterval fires, or the first call at startup: mainLoop suspends in
\* pollMailbox, whether or not an earlier call is still in progress.
OldTimerFire(t) ==
  /\ pc[t] = "idle"
  /\ now' = IF now < MaxTime THEN now + 1 ELSE now
  /\ pc' = [pc EXCEPT ![t] = "poll"]
  /\ UNCHANGED <<jobs, mail, CLAIM_LIMIT, mainRunning, messages, mi, snapshot, stale,
                 batch, bi, resp, effects, crashes>>
  /\ UNCHANGED aux

\* One pass of the for loop up to its await: insertJob.run for the next fetched
\* message, then the call of markMessageAsRead.
OldPollInsert(t) ==
  /\ pc[t] = "insert"
  /\ mi[t] <= Len(messages[t])
  /\ jobs' = InsertJob(jobs, messages[t][mi[t]], now)
  /\ pc' = [pc EXCEPT ![t] = "pollmark"]
  /\ UNCHANGED <<mail, now, CLAIM_LIMIT, mainRunning, messages, mi, snapshot, stale,
                 batch, bi, resp, effects, crashes>>
  /\ UNCHANGED aux

\* markMessageAsRead answers: a 2xx answer has marked the message read, any
\* other answer is only logged; the loop goes on.
OldPollMark(t, st) ==
  /\ pc[t] = "pollmark"
  /\ mail' = IF st >= 200 /\ st <= 299
             THEN [mail EXCEPT ![messages[t][mi[t]]] = "read"]
             ELSE mail
  /\ mi' = [mi EXCEPT ![t] = @ + 1]
  /\ pc' = [pc EXCEPT ![t] = "insert"]
  /\ UNCHANGED <<jobs, now, CLAIM_LIMIT, mainRunning, messages, snapshot, stale, batch,
                 bi, resp, effects, crashes>>
  /\ UNCHANGED aux

\* The PATCH throws: the catch of pollMailbox logs it and the poll is over.
OldPollMarkThrow(t, applied) ==
  /\ pc[t] = "pollmark"
  /\ mail' = IF applied
             THEN [mail EXCEPT ![messages[t][mi[t]]] = "read"]
             ELSE mail
  /\ messages' = [messages EXCEPT ![t] = <<>>]
  /\ mi' = [mi EXCEPT ![t] = 0]
  /\ pc' = [pc EXCEPT ![t] = PcAfterPollError]
  /\ UNCHANGED <<jobs, now, CLAIM_LIMIT, mainRunning, snapshot, stale, batch, bi, resp,
                 effects, crashes>>
  /\ UNCHANGED aux

\* getPendingJobs.all(): every pending row, in rowid order; no row is marked.
OldGetPending(t) ==
  /\ pc[t] = "claim"
  /\ IF PendingIds(jobs) = {}
     THEN EndTick(t)
     ELSE /\ batch' = [batch EXCEPT ![t] = SortedIds(PendingIds(jobs))]
          /\ bi' = [bi EXCEPT ![t] = 1]
          /\ pc' = [pc EXCEPT ![t] = "post"]
          /\ UNCHANGED mainRunning
  /\ UNCHANGED <<jobs, mail, now, CLAIM_LIMIT, messages, mi, snapshot, stale, resp,
                 effects, crashes>>
  /\ UNCHANGED aux

\* The webhook answers the POST of the current job: resp.ok marks it done.
OldPostReturn(t, r) ==
  /\ pc[t] = "post"
  /\ effects' = EffectsAfter(jobs[CurJob(t)].msg_id, r)
  /\ jobs' = IF RespOk(r) THEN MarkJobDone(jobs, CurJob(t)) ELSE MarkJobError(jobs, CurJob(t))
  /\ NextJob(t)
  /\ UNCHANGED <<mail, now, CLAIM_LIMIT, messages, mi, snapshot, stale, crashes>>
  /\ UNCHANGED aux

\* The POST throws: the catch marks the job error.
OldPostThrow(t) ==
  /\ pc[t] = "post"
  /\ jobs' = MarkJobError(jobs, CurJob(t))
  /\ NextJob(t)
  /\ UNCHANGED <<mail, now, CLAIM_LIMIT, messages, mi, snapshot, stale, effects,
                 crashes>>
  /\ UNCHANGED aux

\* ------------------------------- the handler of src/webhook-server.js
\* How a request to this handler can go, named as for the handlers above.
WsPaths == {"convertFail", "quoteFail", "noPrice", "sendThrow", "sendOk"}

\* res.status(500).json({ok: false, ...}) when the conversion, the token or the
\* quote fails; else res.json({ok: true, createResult, priceInfo, replyResult}):
\* the body has no shouldMarkAsRead member, whether or not the reply was sent.
WsResponse(path) ==
  IF path \in {"convertFail", "quoteFail"} THEN WhFailed
  ELSE [status |-> 200, body |-> "noflag"]

\* The worker's POST of the current job is served by this handler.
WsPostReturn(w, path) == PostReturn(w, WsResponse(path))

\* ------------------------------------------------ a folder past one page

\* One message more than a page of fetchUnreadEmails holds.
PageMessages == 1..(Top + 1)

\* The provider lists the unread messages in a fixed order (here by message
\* number) and the request asks for the first page only: no $orderby, no
\* @odata.nextLink followed.  This is one of FetchResults.
ListedPage == SubSeq(SortedIds(Unread), 1, Min(Top, Cardinality(Unread)))

PollFetchListed(w) ==
  /\ pc[w] = "poll"
  /\ messages' = [messages EXCEPT ![w] = ListedPage]
  /\ mi' = [mi EXCEPT ![w] = 1]
  /\ pc' = [pc EXCEPT ![w] = "insert"]
  /\ UNCHANGED <<jobs, mail, now, CLAIM_LIMIT, mainRunning, snapshot, stale, batch,
                 bi, resp, effects, crashes>>
  /\ UNCHANGED aux

\* The answers of a webhook that cannot serve these messages.
FailedResponses == {r \in Responses : ~RespOk(r)}

\* ------------------------------------- the two programs on one database file

\* db.exec(CREATE TABLE IF NOT EXISTS jobs ...) of a program: the table is
\* created with that program's columns only when the file has no table jobs;
\* an existing table is left as it is.
SchemaAfterExec(schema, p) == IF schema = "none" THEN p ELSE schema

\* db.prepare of the program's INSERT compiles against the table's columns.
\* The worker's statement names msg_id, which the listener's table lacks; the
\* listener's names attempts and next_run_at, which the worker's table lacks.
PrepareOk(schema, p) == schema = p

\* A program is started on the shared file: it runs its CREATE TABLE and then
\* prepares its statements at module load; a prepare that throws ends the
\* process before it listens or polls.
ProgramBoot(p) ==
  /\ procUp[p] = "down"
  /\ dbSchema' = SchemaAfterExec(dbSchema, p)
  /\ procUp' = [procUp EXCEPT ![p] = IF PrepareOk(dbSchema', p) THEN "up" ELSE "failed"]
  /\ UNCHANGED <<skips, smtpJobs, smtpPc, smtpReply>>
  /\ UNCHANGED whVars
  /\ UNCHANGED workerVars
  /\ UNCHANGED adminVars
  /\ UNCHANGED convVars

\* A program that ended at startup is started again.
ProgramRestart(p) ==
  /\ procUp[p] = "failed"
  /\ procUp' = [procUp EXCEPT ![p] = "down"]
  /\ UNCHANGED <<dbSchema, skips, smtpJobs, smtpPc, smtpReply>>
  /\ UNCHANGED whVars
  /\ UNCHANGED workerVars
  /\ UNCHANGED adminVars
  /\ UNCHANGED convVars

\* The worker, once its statements are prepared: startup and ticks.
SharedWorker(w) ==
  /\ procUp["worker"] = "up"
  /\ \/ Start(w)
     \/ TimerFire(w)
     \/ PollFetch(w)
     \/ PollInsert(w)
     \/ PollDone(w)
     \/ ClaimSelect(w)
     \/ ClaimUpdate(w)
     \/ \E r \in Responses : PostReturn(w, r)
     \/ \E st \in GraphStatuses : MarkReadReturn(w, st)

\* The listener, once its statement is prepared: its transactions.
SharedSmtp ==
  /\ procUp["smtp"] = "up"
  /\ \/ \E s \in Sessions : SmtpData(s)
     \/ \E s \in Sessions : SmtpFinish(s, "ok")

Environment == \E m \in Messages : MailArrives(m)

Tick(w) ==
  \/ TimerFire(w)
  \/ PollFetch(w)
  \/ PollThrow(w)
  \/ PollInsert(w)
  \/ PollDone(w)
  \/ ClaimSelect(w)
  \/ ClaimUpdate(w)
  \/ \E r \in Responses : PostReturn(w, r)
  \/ PostThrow(w)
  \/ \E st \in GraphStatuses : MarkReadReturn(w, st)
  \/ \E applied \in BOOLEAN : MarkReadThrow(w, applied)

\* One worker process that can be stopped and started again.
Next ==
  \/ Environment
  \/ Tick(1)
  \/ Start(1)
  \/ Crash(1)

Spec == Init /\ [][Next]_vars

\* The timer keeps firing, every awaited call comes back, a stopped process is
\* started again, and the mailbox API does not fail forever.
FairSpec ==
  /\ Spec
  /\ WF_vars(Tick(1))
  /\ WF_vars(Start(1))
  /\ SF_vars(PollFetch(1))

\* One worker process that is started once and keeps running: the timer keeps
\* firing and every awaited call comes back.
NextSteady ==
  \/ Environment
  \/ Tick(1)
  \/ Start(1)

FairSpecSteady ==
  /\ Init /\ [][NextSteady]_vars
  /\ WF_vars(Tick(1))
  /\ WF_vars(Start(1))

\* Two worker processes just started against the same empty store, neither of
\* which stops: no row goes back to 'pending'.
InitRace ==
  /\ InitStore
  /\ pc = [w \in Workers |-> "poll"]
  /\ mainRunning = [w \in Workers |-> TRUE]

NextRace ==
  \/ \E m \in 1..NumRaceMsgs : MailArrives(m)
  \/ \E w \in Workers : Tick(w)
  \/ \E w \in Workers : ClaimBusy(w)

SpecRace == InitRace /\ [][NextRace]_vars

\* Two worker processes on one store, each started at any time: a process may
\* run its startup while the other is in the middle of a tick.
NextJoin ==
  \/ \E m \in 1..NumRaceMsgs : MailArrives(m)
  \/ \E w \in Workers : Start(w)
  \/ \E w \in Workers : Tick(w)
  \/ \E w \in Workers : ClaimBusy(w)

SpecJoin == Init /\ [][NextJoin]_vars

\* The earlier worker: one process, started, whose mainLoop calls may overlap.
InitOld ==
  /\ InitStore
  /\ pc = [t \in Workers |-> "idle"]
  /\ mainRunning = [t \in Workers |-> FALSE]

OldTick(t) ==
  \/ OldTimerFire(t)
  \/ PollFetch(t)
  \/ PollThrow(t)
  \/ OldPollInsert(t)
  \/ \E st \in GraphStatuses : OldPollMark(t, st)
  \/ \E applied \in BOOLEAN : OldPollMarkThrow(t, applied)
  \/ PollDone(t)
  \/ OldGetPending(t)
  \/ \E r \in Responses : OldPostReturn(t, r)
  \/ OldPostThrow(t)

NextOld ==
  \/ \E m \in 1..NumRaceMsgs : MailArrives(m)
  \/ \E t \in Workers : OldTick(t)

SpecOld == InitOld /\ [][NextOld]_vars

\* A folder that holds one unread message more than a page, polled by one
\* worker whose webhook fails for each of them.
InitPage ==
  /\ jobs = <<>>
  /\ mail = [m \in PageMessages |-> "unread"]
  /\ effects = [m \in PageMessages |-> 0]
  /\ now = 0
  /\ CLAIM_LIMIT \in ClaimLimits
  /\ pc = [w \in Workers |-> "stopped"]
  /\ mainRunning = [w \in Workers |-> FALSE]
  /\ messages = [w \in Workers |-> <<>>]
  /\ mi = [w \in Workers |-> 0]
  /\ snapshot = [w \in Workers |-> {}]
  /\ stale = [w \in Workers |-> FALSE]
  /\ batch = [w \in Workers |-> <<>>]
  /\ bi = [w \in Workers |-> 0]
  /\ resp = [w \in Workers |-> NoResp]
  /\ crashes = 0
  /\ skips = [w \in Workers |-> 0]
  /\ smtpJobs = <<>>
  /\ smtpPc = [s \in Sessions |-> "idle"]
  /\ smtpReply = [s \in Sessions |-> "none"]
  /\ whPc = [q \in Requests |-> "idle"]
  /\ whPath = [q \in Requests |-> "none"]
  /\ whResp = [q \in Requests |-> [status |-> 0, body |-> "none"]]
  /\ whSent = [q \in Requests |-> 0]
  /\ dbSchema = "none"
  /\ procUp = [p \in Programs |-> "down"]
  /\ operations = DefaultOperations
  /\ opLast = NoRequest
  /\ convPc = "idle"
  /\ convIn = NoCall
  /\ extracted = NoExtract
  /\ result = NoResult

PageTick(w) ==
  \/ TimerFire(w)
  \/ PollFetchListed(w)
  \/ PollInsert(w)
  \/ PollDone(w)
  \/ ClaimSelect(w)
  \/ ClaimUpdate(w)
  \/ \E r \in FailedResponses : PostReturn(w, r)
  \/ PostThrow(w)

NextPage ==
  \/ Start(1)
  \/ PageTick(1)

\* The timer keeps firing, every call is answered, and every poll succeeds.
FairSpecPage ==
  /\ InitPage /\ [][NextPage]_vars
  /\ WF_vars(PageTick(1))
  /\ WF_vars(Start(1))

\* The guarded worker with src/webhook-server.js behind WEBHOOK_URL.  The
\* mark-read steps are not listed: they start from 'markread', which the worker
\* enters only on a response whose flag is true.
ComposedTick(w) ==
  \/ TimerFire(w)
  \/ PollFetch(w)
  \/ PollThrow(w)
  \/ PollInsert(w)
  \/ PollDone(w)
  \/ ClaimSelect(w)
  \/ ClaimUpdate(w)
  \/ \E path \in WsPaths : WsPostReturn(w, path)
  \/ PostThrow(w)

NextComposed ==
  \/ Environment
  \/ ComposedTick(1)
  \/ Start(1)
  \/ Crash(1)

SpecComposed == Init /\ [][NextComposed]_vars

\* One worker process whose timer also fires while a tick is running.
NextTimer ==
  \/ \E m \in 1..NumRaceMsgs : MailArrives(m)
  \/ Tick(1)
  \/ Start(1)
  \/ TimerSkip(1)

SpecTimer == Init /\ [][NextTimer]_vars

\* One worker process whose downstream may stop answering.
NextHang ==
  \/ \E m \in 1..NumRaceMsgs : MailArrives(m)
  \/ Tick(1)
  \/ Start(1)
  \/ TimerSkip(1)
  \/ Hang(1)

\* The timer keeps firing, every call that is answered is resumed, and the
\* process is started.
FairSpecHang ==
  /\ Init /\ [][NextHang]_vars
  /\ WF_vars(Tick(1))
  /\ WF_vars(Start(1))
  /\ WF_vars(TimerSkip(1))

\* One worker process, stopped and started again, whose store can fail.
NextStorage ==
  \/ Environment
  \/ Tick(1)
  \/ Start(1)
  \/ Crash(1)
  \/ StartResetFails(1)
  \/ PollInsertFails(1)
  \/ \E marked \in BOOLEAN : StatusUpdateFails(1, marked)

SpecStorage == Init /\ [][NextStorage]_vars

\* The SMTP listener receiving its transactions, which may overlap.
NextSmtp ==
  \/ \E s \in Sessions : SmtpData(s)
  \/ \E s \in Sessions : \E outcome \in SmtpOutcomes : SmtpFinish(s, outcome)
  \/ SmtpClock

SpecSmtp == Init /\ [][NextSmtp]_vars

\* The admin server answering operations requests one after the other: each
\* handler reads and writes the file synchronously.
NextAdmin ==
  \/ \E raw \in NameInputs : \E meta \in BOOLEAN : PostOperation(raw, meta)
  \/ \E idx \in IndexInputs : \E raw \in NameInputs : \E meta \in BOOLEAN :
       PutOperation(idx, raw, meta)
  \/ \E idx \in IndexInputs : DeleteOperation(idx)

SpecAdmin == Init /\ [][NextAdmin]_vars

\* Conversions, one after the other.
NextConvert ==
  \/ \E text \in Texts : \E file \in OpsFiles : ConvCall(text, file)
  \/ \E out \in ModelOutputs : ConvReturn(out)

SpecConvert == Init /\ [][NextConvert]_vars

\* The listener and one worker on the same DATA_DIR, started in either order.
NextShared ==
  \/ \E p \in Programs : ProgramBoot(p)
  \/ \E p \in Programs : ProgramRestart(p)
  \/ \E m \in Messages : MailArrives(m)
  \/ SharedWorker(1)
  \/ SharedSmtp

\* Both programs get started, a program that ended is started again, and a
\* program that runs keeps taking its steps.
FairSpecShared ==
  /\ Init /\ [][NextShared]_vars
  /\ \A p \in Programs : WF_vars(ProgramBoot(p))
  /\ \A p \in Programs : WF_vars(ProgramRestart(p))
  /\ WF_vars(SharedWorker(1))
  /\ WF_vars(SharedSmtp)

\* The webhook handler serving its requests, which may overlap.
NextWebhook ==
  \/ \E q \in Requests : WhReceive(q)
  \/ \E q \in Requests : \E ok \in BOOLEAN : WhConvert(q, ok)
  \/ \E q \in Requests : \E res \in WhQuoteResults : WhQuote(q, res)
  \/ \E q \in Requests : \E res \in WhSendResults : WhSend(q, res)

SpecWebhook == Init /\ [][NextWebhook]_vars


\* ----------------------------------------------------------------- claims

Range(s) == {s[i] : i \in DOMAIN s}

\* C1: every job whose status is 'done' has its source message marked read at
\* the provider: a mark-read that the provider did not confirm never ends in done.
C1_DoneImpliesRead ==
  \A i \in DOMAIN jobs : jobs[i].status = "done" => mail[jobs[i].msg_id] = "read"

\* C2: a job becomes 'done' only in a step of the worker that holds, for that
\* job's running attempt, a webhook response with a 2xx status and a JSON body
\* whose shouldMarkAsRead flag is true.
C2_DoneOnlyAfterAck ==
  [][\A i \in DOMAIN jobs :
       (jobs[i].status # "done" /\ jobs'[i].status = "done")
       => \E w \in Workers :
            /\ pc[w] = "markread"
            /\ CurJob(w) = i
            /\ resp[w].status >= 200 /\ resp[w].status <= 299
            /\ resp[w].body = "flagtrue"]_vars

C2_Witness == \E i \in DOMAIN jobs : jobs[i].status = "done" /\ effects[jobs[i].msg_id] >= 1

\* C3: every job a claim returns was 'pending' in the store immediately before
\* the claim committed, is 'processing' after it, and is in no batch another
\* caller holds: two claims never return the same pending job.
C3_ExclusiveClaim ==
  [][\A w \in Workers :
       (pc[w] = "claim_tx" /\ pc'[w] = "post")
       => \A k \in Range(batch'[w]) :
            /\ jobs[k].status = "pending"
            /\ jobs'[k].status = "processing"
            /\ \A v \in Workers \ {w} : k \notin Range(batch[v])]_vars

\* One caller's claim has committed while the other caller's transaction, which
\* selected the same job, is still open.
C3_Witness ==
  /\ pc[1] = "post"
  /\ pc[2] = "claim_tx"
  /\ snapshot[2] \cap Range(batch[1]) # {}

\* C4: a job whose delivery attempt failed (status 'error') is eventually
\* claimed again (status 'processing').
C4_FailedJobRetried ==
  \A m \in Messages : (StatusOf(m) = "error") ~> (StatusOf(m) = "processing")

\* C5: when the webhook answers HTTP 500 to the first attempt of a job, the job
\* is 'pending' afterwards with attempts = 1 and a next_run_at later than the
\* time of the attempt, and a claim made then does not return it.
C5_RetryAfter500 ==
  [][\A w \in Workers : \A r \in Responses :
       (crashes = 0 /\ r.status = 500 /\ PostReturn(w, r))
       => LET row == jobs'[CurJob(w)]
          IN /\ row.status = "pending"
             /\ {"attempts", "next_run_at"} \subseteq DOMAIN row
             /\ row.attempts = 1
             /\ row.next_run_at > now
             /\ CurJob(w) \notin SelectPending(jobs', CLAIM_LIMIT)]_vars

\* C6: each retryable failure of a job adds one to the job's attempts counter
\* (so that it equals the number of failures) and schedules a next_run_at that
\* is not earlier than the one before.
C6_BackoffMonotone ==
  [][\A w \in Workers :
       (/\ pc[w] \in {"post", "markread"}
        /\ jobs[CurJob(w)].status = "processing"
        /\ jobs'[CurJob(w)].status \notin {"processing", "done"})
       => LET old == jobs[CurJob(w)]
              row == jobs'[CurJob(w)]
          IN /\ {"attempts", "next_run_at"} \subseteq DOMAIN row
             /\ row.attempts = old.attempts + 1
             /\ row.next_run_at >= old.next_run_at]_vars

C8_EffectAtMostOnce == \A m \in Messages : effects[m] <= 1

\* C8 (amended): the webhook answers shouldMarkAsRead = true for one source
\* message at most once more than the number of process stops so far.
C8_EffectAtMostOncePerRun == \A m \in Messages : effects[m] <= 1 + crashes

C8_Witness == \E m \in Messages : effects[m] = 2 /\ crashes = 1

\* C9: a message is read at the provider only if the webhook has answered a
\* POST of that message's job with 2xx and shouldMarkAsRead = true; a message
\* whose job was inserted and not yet acknowledged is still unread.
C9_ReadOnlyAfterAck ==
  \A m \in Messages :
    /\ mail[m] = "read" => effects[m] >= 1
    /\ (StatusOf(m) # "none" /\ effects[m] = 0) => mail[m] = "unread"

C9_Witness ==
  \E m, n \in Messages :
    /\ mail[m] = "read"
    /\ pc[1] = "stopped"
    /\ crashes >= 1
    /\ StatusOf(n) = "processing"
    /\ effects[n] = 0
    /\ mail[n] = "unread"

\* C10: the store never holds two rows with the same message id.
C10_OneRowPerMessage ==
  \A i, k \in DOMAIN jobs : jobs[i].msg_id = jobs[k].msg_id => i = k

C10_Witness ==
  /\ pc[1] = "insert" /\ mi[1] = 2
  /\ pc[2] = "insert" /\ mi[2] = 2
  /\ messages[1][1] = messages[2][1]
  /\ Cardinality({i \in DOMAIN jobs : jobs[i].msg_id = messages[1][1]}) = 1

\* C11: an insert for a message id that is already stored does not fail (the
\* loop of the poll goes on to the next fetched message) and leaves the table
\* as it was, whatever the status of the stored row: no row is reset to
\* 'pending' and no payload is rewritten.
C11_DuplicateInsertNoChange ==
  [][\A w \in Workers :
       (/\ pc[w] = "insert"
        /\ mi'[w] = mi[w] + 1
        /\ HasMsg(jobs, messages[w][mi[w]]))
       => /\ jobs' = jobs
          /\ pc'[w] = "insert"
          /\ messages'[w] = messages[w]]_vars

\* Both processes have run the insert for the same message while its job was
\* already in 'error': at least the later of the two inserts met the failed row.
C11_Witness ==
  /\ pc[1] = "insert" /\ mi[1] = 2
  /\ pc[2] = "insert" /\ mi[2] = 2
  /\ messages[1][1] = messages[2][1]
  /\ StatusOf(messages[1][1]) = "error"

\* C12: at most one tick of a worker is active: a tick starts only while none
\* is running (the guard is clear and the process is between two ticks or just
\* started), and a timer firing that meets a running tick polls, claims and
\* delivers nothing and leaves nothing behind that would start a tick later:
\* only the clock and the count of such firings move.
C12_OneTickAtATime ==
  [][\A w \in Workers :
       /\ mainRunning[w] <=> pc[w] \notin {"idle", "stopped"}
       /\ (pc'[w] = "poll" /\ (pc[w] # "poll" \/ mainRunning'[w] # mainRunning[w]))
          => (pc[w] \in {"idle", "stopped"} /\ ~mainRunning[w])
       /\ (now' # now /\ pc[w] \notin {"idle", "stopped"})
          => (skips'[w] = skips[w] + 1 /\ pc'[w] = pc[w])
       /\ skips'[w] # skips[w]
          => (/\ mainRunning[w]
              /\ pc[w] \notin {"idle", "stopped"}
              /\ UNCHANGED <<jobs, mail, pc, mainRunning, messages, mi, snapshot,
                             stale, batch, bi, resp, effects>>)]_vars

\* A firing was turned away while the tick was delivering, and the tick went on.
C12_Witness == skips[1] = 1 /\ pc[1] = "markread"

\* C13: every tick that starts ends and clears the run guard, whatever the
\* downstream does: a guard that is set is eventually clear again.
C13_TickEnds == \A w \in Workers : mainRunning[w] ~> ~mainRunning[w]

\* C14: when the mark-read of a job whose webhook answered 200 with the flag
\* true succeeds, the job's row is gone from the store after that step (and so
\* can be returned by no later claim).
C14_RemovedAfterSuccess ==
  [][\A w \in Workers :
       (/\ pc[w] = "markread"
        /\ resp[w].status = 200 /\ resp[w].body = "flagtrue"
        /\ MarkReadReturn(w, 200))
       => ~HasMsg(jobs', jobs[CurJob(w)].msg_id)]_vars

\* C15: the batch a claim returns has at most CLAIM_LIMIT jobs, each of them
\* 'pending' until the claim took it; when the batch is full, every job still
\* 'pending' after the claim was inserted later (higher id, no earlier
\* created_at) than every job of the batch.
C15_OldestFirst ==
  [][\A w \in Workers :
       (pc[w] = "claim_tx" /\ pc'[w] = "post")
       => LET B == Range(batch'[w])
          IN /\ Len(batch'[w]) = Cardinality(B)
             /\ Cardinality(B) <= CLAIM_LIMIT
             /\ \A k \in B : jobs[k].status = "pending"
             /\ Cardinality(B) = CLAIM_LIMIT
                => \A i \in PendingIds(jobs') : \A k \in B :
                     /\ i > k
                     /\ jobs[i].created_at >= jobs[k].created_at]_vars

\* A full batch was claimed and a pending job was left behind for a later tick.
C15_Witness ==
  /\ pc[1] = "post" /\ bi[1] = 1
  /\ Len(batch[1]) = CLAIM_LIMIT
  /\ PendingIds(jobs) # {}

\* C17: a poll that fails (no messages reach the insert loop) changes no job
\* row and no message, and hands the same tick on to the claim with the guard
\* still set; a tick that reaches the claim while jobs are pending takes the
\* oldest of them.
C17_PollFailureIsolated ==
  [][\A w \in Workers :
       /\ (pc[w] = "poll" /\ pc'[w] \notin {"poll", "insert", "stopped"})
          => (/\ jobs' = jobs
              /\ mail' = mail
              /\ pc'[w] = "claim"
              /\ mainRunning'[w])
       /\ (pc[w] = "claim" /\ pc'[w] \notin {"claim", "stopped"} /\ PendingIds(jobs) # {})
          => (/\ pc'[w] = "claim_tx"
              /\ snapshot'[w] = SelectPending(jobs, CLAIM_LIMIT)
              /\ snapshot'[w] # {})]_vars

\* A tick after a restart is claiming a job stored by the run before, while an
\* unread message has no row yet: the poll of this tick did not store it, and
\* the tick went on to the claim all the same.
C17_Witness ==
  /\ pc[1] = "claim_tx"
  /\ crashes >= 1
  /\ \E m \in Messages : mail[m] = "unread" /\ ~HasMsg(jobs, m)
  /\ \E i \in snapshot[1] : mail[jobs[i].msg_id] = "unread"

\* C18: no storage error is swallowed.  A process that went through its
\* startup has no row left in 'processing' (a failed reset stops the startup),
\* and a poll that hands the tick on to the claim has stored every message it
\* fetched (a failed insert stops the tick instead of dropping the message and
\* the messages after it).
C18_StorageErrorsPropagate ==
  [][\A w \in Workers :
       /\ (pc[w] = "stopped" /\ pc'[w] # "stopped")
          => \A i \in DOMAIN jobs' : jobs'[i].status # "processing"
       /\ (pc[w] = "insert" /\ pc'[w] = "claim")
          => \A k \in DOMAIN messages[w] : HasMsg(jobs, messages[w][k])]_vars

\* The rows the listener holds for the message of a session.
SmtpRowsOf(s) == {i \in DOMAIN smtpJobs : smtpJobs[i].payload = SmtpPayload(s)}

\* C19: a transaction answered without error has exactly one row, 'pending',
\* with attempts 0 and next_run_at = created_at; a transaction answered with an
\* error, or not answered yet, has no row.
C19_SmtpAckMeansStored ==
  \A s \in Sessions :
    /\ smtpReply[s] = "ok"
       => /\ Cardinality(SmtpRowsOf(s)) = 1
          /\ \A i \in SmtpRowsOf(s) :
               /\ smtpJobs[i].status = "pending"
               /\ smtpJobs[i].attempts = 0
               /\ smtpJobs[i].next_run_at = smtpJobs[i].created_at
    /\ smtpReply[s] # "ok" => SmtpRowsOf(s) = {}

\* One transaction was accepted and stored, another was failed.
C19_Witness ==
  \E s, t \in Sessions :
    /\ smtpReply[s] = "ok"
    /\ smtpReply[t] = "err"
    /\ Len(smtpJobs) = 1

\* C20: a tick runs ingestion, then the claim, then delivery.  While a tick
\* claims or delivers, its poll is over (nothing fetched is left to insert);
\* until the claim has committed there is no batch; during delivery the batch
\* is in ascending id order, every job before the current one is finalized
\* ('done' or 'error'), and the current job and those after it are still
\* 'processing', so that no attempt has started ahead of its turn.
C20_TickOrder ==
  \A w \in Workers :
    /\ pc[w] \in {"claim", "claim_tx", "post", "markread"}
       => (messages[w] = <<>> /\ mi[w] = 0)
    /\ pc[w] \in {"stopped", "idle", "poll", "insert", "claim", "claim_tx"}
       => (batch[w] = <<>> /\ bi[w] = 0 /\ resp[w] = NoResp)
    /\ pc[w] \in {"post", "markread"}
       => /\ bi[w] \in DOMAIN batch[w]
          /\ \A a, b \in DOMAIN batch[w] : a < b => batch[w][a] < batch[w][b]
          /\ \A k \in DOMAIN batch[w] :
               IF k < bi[w]
               THEN jobs[batch[w][k]].status \in {"done", "error"}
               ELSE jobs[batch[w][k]].status = "processing"
          /\ (pc[w] = "post") <=> (resp[w] = NoResp)

\* In the first tick of the first run the second job of a batch is under
\* delivery: both jobs were fetched, stored and claimed by this same tick.
C20_Witness ==
  /\ now = 0 /\ crashes = 0
  /\ pc[1] = "post" /\ bi[1] = 2

\* C21: the handler answers shouldMarkAsRead = true only for a request in which
\* a price was found and the send returned ok (one reply was handed over); a
\* request without a price, or whose send threw, is answered 200 with the flag
\* false; a request whose conversion or quote failed is answered 500 and no
\* reply was sent for it, and none either when no price was found.
C21_FlagOnlyAfterReply ==
  \A q \in Requests :
    /\ whResp[q].body = "flagtrue"
       => (whPath[q] = "sendOk" /\ whSent[q] = 1 /\ whResp[q].status = 200)
    /\ whPath[q] \in {"noPrice", "sendThrow"}
       => whResp[q] = [status |-> 200, body |-> "flagfalse"]
    /\ whPath[q] \in {"convertFail", "quoteFail"}
       => (whResp[q].status = 500 /\ whSent[q] = 0)
    /\ whPath[q] = "noPrice" => whSent[q] = 0

\* One request was acknowledged after its reply went out; another found a
\* price, its send threw, and it was answered.
C21_Witness ==
  \E q, r \in Requests :
    /\ whResp[q].body = "flagtrue"
    /\ whPath[r] = "sendThrow" /\ whPc[r] = "answered"

\* C22: with two worker processes on one store, one of them started while the
\* other is in a tick, no job is under delivery (its POST or its mark-read in
\* flight) in both processes at once.
C22_NoDoubleDelivery ==
  \A w, v \in Workers :
    (w # v /\ pc[w] \in {"post", "markread"} /\ pc[v] \in {"post", "markread"})
    => CurJob(w) # CurJob(v)

\* C23: every status change follows the lifecycle.  A new row is 'pending'.  A
\* row changes its status only from 'pending' to 'processing', in the claim
\* that returns it; from 'processing' to 'done' or 'error', as the job under
\* delivery of the tick that claimed it; or from 'processing' back to
\* 'pending', in the startup reset.  No other change happens: none from
\* 'pending' to 'done' or 'error', none out of 'done' or 'error'.
C23_Lifecycle ==
  [][/\ Len(jobs') >= Len(jobs)
     /\ \A i \in DOMAIN jobs' \ DOMAIN jobs : jobs'[i].status = "pending"
     /\ \A i \in DOMAIN jobs :
          jobs'[i].status # jobs[i].status
          => \/ /\ jobs[i].status = "pending"
                /\ jobs'[i].status = "processing"
                /\ \E w \in Workers :
                     pc[w] = "claim_tx" /\ pc'[w] = "post" /\ i \in Range(batch'[w])
             \/ /\ jobs[i].status = "processing"
                /\ jobs'[i].status \in {"done", "error"}
                /\ \E w \in Workers : pc[w] \in {"post", "markread"} /\ i = CurJob(w)
             \/ /\ jobs[i].status = "processing"
                /\ jobs'[i].status = "pending"
                /\ \E w \in Workers : pc[w] = "stopped" /\ pc'[w] = "poll"]_vars

\* One job was claimed and ended in 'error'; another was claimed, acknowledged
\* by the webhook, left 'processing' by a stop and returned to 'pending' by
\* the startup reset.
C23_Witness ==
  /\ crashes >= 1
  /\ \E i, k \in DOMAIN jobs :
       /\ jobs[i].status = "error"
       /\ jobs[k].status = "pending"
       /\ effects[jobs[k].msg_id] >= 1

C25_OldReadOnlyAfterDelivery ==
  \A m \in Messages :
    /\ mail[m] = "read" => StatusOf(m) = "done"
    /\ StatusOf(m) = "error" => mail[m] = "unread"

\* C27: in the earlier worker no job has its POST in flight in two overlapping
\* mainLoop calls: a job a call is delivering is not delivered by another call.
C27_OldPostedByOneTick ==
  \A t, u \in Workers :
    (t # u /\ pc[t] = "post" /\ pc[u] = "post") => CurJob(t) # CurJob(u)

\* C26: with src/webhook-server.js as the webhook, every 2xx response carries
\* the boolean flag the worker reads, and a job whose request found a price and
\* sent its reply goes on to the mark-read of its message in that attempt (and
\* from there to 'done' when the mark-read succeeds).
C26_ComposedAckReachesDone ==
  [][\A w \in Workers : \A path \in WsPaths :
       (pc[w] = "post" /\ WsPostReturn(w, path))
       => /\ RespOk(WsResponse(path))
             => WsResponse(path).body \in {"flagtrue", "flagfalse"}
          /\ path = "sendOk"
             => (pc'[w] = "markread" /\ jobs'[CurJob(w)].status = "processing")]_vars

\* C28: 'done' is absorbing.  A row that is 'done' is the same row, in every
\* field, after any step (poll, insert of its message again, claim, delivery,
\* stop, restart); no claim selects it and no tick has it under delivery.
C28_DoneAbsorbing ==
  [][\A i \in DOMAIN jobs :
       jobs[i].status = "done"
       => /\ i \in DOMAIN jobs'
          /\ jobs'[i] = jobs[i]
          /\ \A w \in Workers :
               /\ i \notin snapshot'[w]
               /\ pc'[w] \in {"post", "markread"} => batch'[w][bi'[w]] # i]_vars

\* After a restart the message of a 'done' job, still unread at the provider,
\* was fetched and inserted again, and its job is still 'done'.
C28_Witness ==
  /\ crashes >= 1
  /\ pc[1] = "insert" /\ mi[1] = 2
  /\ StatusOf(messages[1][1]) = "done"
  /\ mail[messages[1][1]] = "unread"

\* C29: every job that is 'pending' is eventually claimed, whatever arrives
\* and is inserted after it.
C29_PendingEventuallyClaimed ==
  \A m \in Messages : (StatusOf(m) = "pending") ~> (StatusOf(m) = "processing")

\* With batches of one job, the second job, stored before the clock last moved,
\* is under delivery after the first was finalized: it waited for a later tick
\* and was claimed there.
C29_Witness ==
  /\ CLAIM_LIMIT = 1
  /\ pc[1] = "post" /\ CurJob(1) = 2
  /\ jobs[1].status \in {"done", "error"}
  /\ jobs[2].created_at < now

\* Every message that is unread in the folder has a job row.
AllUnreadInserted ==
  \A m \in DOMAIN mail : mail[m] = "unread" => HasMsg(jobs, m)

\* C30: every message that is unread in the polled folder is eventually
\* inserted as a job, also when the folder holds more unread messages than one
\* page and the messages of failed jobs stay unread.  Job rows are never
\* deleted, so "each unread message eventually has its row" is stated as:
\* whenever some unread message has no row, a state follows in which every
\* unread message has one.
C30_UnreadEventuallyInserted == (~AllUnreadInserted) ~> AllUnreadInserted

\* C31: a job the SMTP listener enqueued in the shared store is eventually
\* claimed by the worker: its row, pending when the listener wrote it, is set
\* to 'processing' by the worker's claim.
C31_SmtpJobEventuallyClaimed ==
  (\E i \in DOMAIN smtpJobs : smtpJobs[i].status = "pending")
    ~> (\E i \in DOMAIN smtpJobs : smtpJobs[i].status = "processing")

\* C32: a claim changes only the status of the rows it returns, from 'pending'
\* to 'processing': every other row and every other field stays as it was, the
\* returned rows read 'processing', and a claim on a store without a pending
\* row changes nothing and hands nothing to delivery.
C32_ClaimFrame ==
  [][\A w \in Workers :
       /\ (pc[w] = "claim_tx" /\ pc'[w] = "post") =>
            /\ batch'[w] # <<>>
            /\ DOMAIN jobs' = DOMAIN jobs
            /\ \A i \in DOMAIN jobs :
                 IF i \in Range(batch'[w])
                 THEN /\ jobs[i].status = "pending"
                      /\ jobs'[i].status = "processing"
                      /\ jobs'[i] = [jobs[i] EXCEPT !.status = "processing"]
                 ELSE jobs'[i] = jobs[i]
       /\ (pc[w] = "claim" /\ pc'[w] # "claim" /\ PendingIds(jobs) = {}) =>
            /\ jobs' = jobs
            /\ pc'[w] \notin {"claim_tx", "post"}]_vars

\* A claim has just returned one row of a store that holds a second row, which
\* it left alone.
C32_Witness ==
  \E w \in Workers :
    /\ pc[w] = "post"
    /\ bi[w] = 1
    /\ Len(batch[w]) = 1
    /\ Len(jobs) = 2
    /\ jobs[CurJob(w)].status = "processing"
    /\ \E i \in DOMAIN jobs : i # CurJob(w) /\ jobs[i].status \in {"done", "error"}

\* No two entries of a list carry the same trimmed operation name.
NoDuplicateNames(ops) ==
  \A i, j \in DOMAIN ops : i # j => Trim(ops[i].name) # Trim(ops[j].name)

\* The index text as parseInt accepts it: a number is read from its start.
IndexParses(idx) == ~ParseInt(idx).nan

\* The index text is a number: an optional sign followed by digits only.
IndexIsNumber(idx) ==
  LET body == IF idx # <<>> /\ Head(idx) = "-" THEN Tail(idx) ELSE idx
  IN body # <<>> /\ \A k \in DOMAIN body : body[k] \in Digits

\* The index of a PUT or DELETE request is negative, not a number or past the
\* end of the list the request finds.
InvalidIndex(ops, r) ==
  /\ r.method \in {"PUT", "DELETE"}
  /\ \/ ~IndexIsNumber(r.index)
     \/ ParseInt(r.index).val < 0
     \/ ParseInt(r.index).val >= Len(ops)

\* The request would put a name into the list that another entry carries.
WouldDuplicate(ops, r) ==
  /\ Trim(r.name) # <<>>
  /\ \/ /\ r.method = "POST"
        /\ \E i \in DOMAIN ops : Trim(ops[i].name) = Trim(r.name)
     \/ /\ r.method = "PUT"
        /\ ~InvalidIndex(ops, r)
        /\ \E i \in DOMAIN ops :
             i # ParseInt(r.index).val + 1 /\ Trim(ops[i].name) = Trim(r.name)

\* C33: from a list without duplicate names, after any sequence of POST, PUT
\* and DELETE requests the stored list has no two entries with the same
\* trimmed name; a request that would create a duplicate, or whose index is
\* negative, not a number or past the end, is answered with an error and leaves
\* the stored list unchanged.
C33_OperationsUnique ==
  [][/\ NoDuplicateNames(operations')
     /\ (InvalidIndex(operations, opLast') \/ WouldDuplicate(operations, opLast'))
          => (opLast'.status >= 400 /\ operations' = operations)]_vars

\* C34: for every extractor output the model returns, the final JSON of
\* convertWithOpenAI has CustomerCode "C00014", no Deliveries, exactly one
\* entry in CustomProduct.Sections, exactly one entry in
\* CustomProduct.JobOperations, and SelectedQuantity.Kinds = 1 when no kinds
\* were extracted.
C34_HardCodedValues ==
  convPc = "returned" =>
    /\ result.final.CustomerCode = "C00014"
    /\ result.final.Deliveries = <<>>
    /\ Len(result.final.Sections) = 1
    /\ Len(result.final.JobOperations) = 1
    /\ (KindNames(extracted.kinds.list) = <<>> => result.final.Kinds = 1)

====
